---- MODULE Spec2Model ----
(***************************************************************************)
(* MeteoAgent K-index integration (custom_components/meteoagent_kindex).   *)
(*                                                                         *)
(* One MeteoAgentCoordinator per configuration entry fetches the forecast  *)
(* page, parses one K-index value per day offset 0..19 and hands the       *)
(* resulting dict to the host's DataUpdateCoordinator, which exposes it as *)
(* coordinator.data to 20 KIndexSensor entities.                           *)
(*                                                                         *)
(* A step of the model is what the single-threaded event loop runs between *)
(* two awaits.  _async_update_data suspends only inside the network calls  *)
(* (session.get, resp.text, closing the session); the two reads are one    *)
(* await here, because the coroutine holds nothing between them that a     *)
(* step of another task could change.                                      *)
(***************************************************************************)
EXTENDS Integers, Sequences, FiniteSets, TLC

VARIABLES
    clock,        \* the calendar date date.today() returns now
    server,       \* the pages the forecast endpoint may answer with
    registered,   \* config_entry.entry_id in hass.data[DOMAIN]
    data,         \* coordinator.data: None or the dict last returned
    cycles,       \* the running invocations of _async_update_data
    setup,        \* sensor.async_setup_entry: where it stands
    sensors,      \* the KIndexSensor entities added to the host
    log,          \* records _LOGGER wrote in the last parse
    lastOutcome,  \* how the most recent update cycle ended
    pub,          \* the cycle whose result coordinator.data holds
    ticks,        \* midnights passed so far
    made,         \* MeteoAgentCoordinator objects constructed for the entry
    out           \* what the last read of an entity's property returned

vars == <<clock, server, registered, data, cycles, setup, sensors, log,
          lastOutcome, pub, ticks, made, out>>

----------------------------------------------------------------------------
(* Bounds of the model.                                                    *)

\* midnights that pass during a behaviour
MaxTicks == 1
\* invocations of _async_update_data that may be suspended at once
MaxInFlight == 2
\* elements a drawn forecast page holds
MaxElems == 2

\* range(20): the forecast horizon
N == 20

----------------------------------------------------------------------------
(* datetime.date and timedelta: date + timedelta(days=n) goes through the  *)
(* proleptic Gregorian ordinal, date.fromordinal(d.toordinal() + n).       *)

Date(y, m, d) == [year |-> y, month |-> m, day |-> d]

NoDate == Date(0, 0, 0)

IsLeap(y) == y % 4 = 0 /\ (y % 100 # 0 \/ y % 400 = 0)

DaysBeforeMonthTable == <<0, 31, 59, 90, 120, 151, 181, 212, 243, 273, 304, 334>>

DaysInMonthTable == <<31, 28, 31, 30, 31, 30, 31, 31, 30, 31, 30, 31>>

DaysBeforeYear(y) ==
    LET p == y - 1 IN p * 365 + (p \div 4) - (p \div 100) + (p \div 400)

DaysBeforeMonth(y, m) ==
    DaysBeforeMonthTable[m] + (IF m > 2 /\ IsLeap(y) THEN 1 ELSE 0)

ToOrdinal(dt) ==
    DaysBeforeYear(dt.year) + DaysBeforeMonth(dt.year, dt.month) + dt.day

FromOrdinal(ord) ==
    LET n0   == ord - 1
        n400 == n0 \div 146097
        r400 == n0 % 146097
        n100 == r400 \div 36524
        r100 == r400 % 36524
        n4   == r100 \div 1461
        r4   == r100 % 1461
        n1   == r4 \div 365
        n    == r4 % 365
        y    == n400 * 400 + 1 + n100 * 100 + n4 * 4 + n1
        leap == n1 = 3 /\ (n4 # 24 \/ n100 = 3)
        m0   == (n + 50) \div 32
        p0   == DaysBeforeMonthTable[m0] + (IF m0 > 2 /\ leap THEN 1 ELSE 0)
        m    == IF p0 > n THEN m0 - 1 ELSE m0
        p    == IF p0 > n
                THEN p0 - (DaysInMonthTable[m] + (IF m = 2 /\ leap THEN 1 ELSE 0))
                ELSE p0
    IN  IF n1 = 4 \/ n100 = 4
        THEN Date(y - 1, 12, 31)
        ELSE Date(y, m, n - p + 1)

\* today + timedelta(days=day_offset)
AddDays(dt, n) == FromOrdinal(ToOrdinal(dt) + n)

----------------------------------------------------------------------------
(* Text formatting: strftime and the f-strings.                            *)

DigitChar == <<"0", "1", "2", "3", "4", "5", "6", "7", "8", "9">>

RECURSIVE DecSeq(_)
\* the characters of str(n), n a non-negative int
DecSeq(n) ==
    IF n < 10 THEN <<DigitChar[n + 1]>>
    ELSE Append(DecSeq(n \div 10), DigitChar[(n % 10) + 1])

RECURSIVE Join(_)
\* the string made of the characters of s
Join(s) == IF s = <<>> THEN "" ELSE Head(s) \o Join(Tail(s))

\* str(n), as an f-string renders it
DecStr(n) == Join(DecSeq(n))

RECURSIVE ZeroPad(_, _)
\* %Y, %m, %d: the number in at least w digits
ZeroPad(n, w) ==
    IF w <= 1 THEN DecStr(n)
    ELSE IF n < 10 THEN "0" \o ZeroPad(n, w - 1)
    ELSE ZeroPad(n \div 10, w - 1) \o DigitChar[(n % 10) + 1]

\* variant: the format "%Y%d%m", day and month exchanged
StrftimeDayFirst(dt) ==
    ZeroPad(dt.year, 4) \o ZeroPad(dt.day, 2) \o ZeroPad(dt.month, 2)

\* target_date.strftime("%Y%m%d")
StrftimeCompact(dt) ==
    ZeroPad(dt.year, 4) \o ZeroPad(dt.month, 2) \o ZeroPad(dt.day, 2)

\* target_date.strftime("%Y-%m-%d")
StrftimeIso(dt) ==
    ZeroPad(dt.year, 4) \o "-" \o ZeroPad(dt.month, 2) \o "-" \o ZeroPad(dt.day, 2)

\* f".date_{date_format} .value__num"
Selector(date_format) == ".date_" \o date_format \o " .value__num"

\* f"day_{day_offset}", character by character
DayKey(day_offset) == <<"d", "a", "y", "_">> \o DecSeq(day_offset)

----------------------------------------------------------------------------
(* The fetched page.  What the selector ".date_<d> .value__num" can tell   *)
(* apart is, in document order, the value__num elements with the date_     *)
(* class of the element enclosing each and the text inside each.           *)

Element(cls, text) == [cls |-> cls, text |-> text]

Whitespace == {" ", "\t", "\n"}

RECURSIVE LStrip(_)
LStrip(s) ==
    IF s # <<>> /\ Head(s) \in Whitespace THEN LStrip(Tail(s)) ELSE s

RECURSIVE RStrip(_)
RStrip(s) ==
    IF s # <<>> /\ s[Len(s)] \in Whitespace
    THEN RStrip(SubSeq(s, 1, Len(s) - 1))
    ELSE s

\* element.text.strip()
Strip(s) == RStrip(LStrip(s))

IsDigit(c) == \E i \in 1..10 : DigitChar[i] = c

DigitVal(c) == (CHOOSE i \in 1..10 : DigitChar[i] = c) - 1

RECURSIVE DigitsOk(_, _)
\* int() takes digits with single underscores between them
DigitsOk(s, afterDigit) ==
    IF s = <<>> THEN afterDigit
    ELSE IF IsDigit(Head(s)) THEN DigitsOk(Tail(s), TRUE)
    ELSE IF Head(s) = "_" THEN afterDigit /\ DigitsOk(Tail(s), FALSE)
    ELSE FALSE

RECURSIVE DigitsVal(_, _)
DigitsVal(s, acc) ==
    IF s = <<>> THEN acc
    ELSE IF Head(s) = "_" THEN DigitsVal(Tail(s), acc)
    ELSE DigitsVal(Tail(s), acc * 10 + DigitVal(Head(s)))

\* int(text): ok = FALSE stands for ValueError
IntOf(text) ==
    LET signed == text # <<>> /\ Head(text) \in {"+", "-"}
        body   == IF signed THEN Tail(text) ELSE text
        mag    == DigitsVal(body, 0)
    IN  IF DigitsOk(body, FALSE)
        THEN [ok |-> TRUE,
              value |-> IF signed /\ Head(text) = "-" THEN 0 - mag ELSE mag]
        ELSE [ok |-> FALSE, value |-> 0]

Matches(e, selector) == "." \o e.cls \o " .value__num" = selector

\* soup.select_one(selector): the first match in document order, or None
SelectOne(soup, selector) ==
    LET hits == {i \in 1..Len(soup) : Matches(soup[i], selector)}
    IN  IF hits = {}
        THEN [found |-> FALSE, text |-> <<>>]
        ELSE [found |-> TRUE,
              text |-> soup[CHOOSE i \in hits : \A j \in hits : i <= j].text]

----------------------------------------------------------------------------
(* MeteoAgentCoordinator._async_update_data, from the parsed page on.      *)

LogRec(level, msg, day) == [level |-> level, msg |-> msg, day |-> day]

\* result[key] = value
DictSet(d, key, value) == (key :> value) @@ d

\* d.get(key, default)
DictGet(d, key, default) == IF key \in DOMAIN d THEN d[key] ELSE default

\* variant: a day whose element is not found is left out of result
ProcessDaySkipsMissing(soup, today, day_offset, acc) ==
    LET element == SelectOne(soup, Selector(StrftimeCompact(AddDays(today, day_offset))))
        parsed  == IntOf(Strip(element.text))
    IN  IF ~element.found
        THEN [result |-> acc.result,
              log    |-> Append(acc.log, LogRec("warning", "no element", day_offset))]
        ELSE [result |-> DictSet(acc.result, DayKey(day_offset),
                                 IF parsed.ok THEN parsed.value ELSE 0),
              log    |-> Append(acc.log,
                                IF parsed.ok
                                THEN LogRec("debug", "found", day_offset)
                                ELSE LogRec("warning", "could not parse", day_offset))]

\* variant: "value = 0" is missing from the loop, so a day whose element
\* is missing or unparseable keeps the value read for the day before it
ProcessDayKeepsValue(soup, today, day_offset, acc) ==
    LET element == SelectOne(soup, Selector(StrftimeCompact(AddDays(today, day_offset))))
        parsed  == IntOf(Strip(element.text))
        earlier == SelectOne(soup, Selector(StrftimeCompact(AddDays(today, day_offset - 1))))
        read    == IntOf(Strip(earlier.text))
        before  == IF day_offset > 0 /\ earlier.found /\ read.ok
                   THEN read.value ELSE 0
    IN  [result |-> DictSet(acc.result, DayKey(day_offset),
                            IF element.found /\ parsed.ok
                            THEN parsed.value ELSE before),
         log    |-> Append(acc.log,
                           IF ~element.found
                           THEN LogRec("warning", "no element", day_offset)
                           ELSE IF parsed.ok
                           THEN LogRec("debug", "found", day_offset)
                           ELSE LogRec("warning", "could not parse", day_offset))]

\* one pass of "for day_offset in range(20)"
ProcessDay(soup, today, day_offset, acc) ==
    LET target_date == AddDays(today, day_offset)
        date_format == StrftimeCompact(target_date)
        element     == SelectOne(soup, Selector(date_format))
        parsed      == IntOf(Strip(element.text))
        value       == IF element.found /\ parsed.ok THEN parsed.value ELSE 0
        entry       == IF ~element.found
                       THEN LogRec("warning", "no element", day_offset)
                       ELSE IF parsed.ok
                       THEN LogRec("debug", "found", day_offset)
                       ELSE LogRec("warning", "could not parse", day_offset)
    IN  [result |-> DictSet(acc.result, DayKey(day_offset), value),
         log    |-> Append(acc.log, entry)]

RECURSIVE ProcessDays(_, _, _, _)
ProcessDays(soup, today, day_offset, acc) ==
    IF day_offset >= N THEN acc
    ELSE ProcessDays(soup, today, day_offset + 1,
                     ProcessDay(soup, today, day_offset, acc))

\* the body of "async with session.get(...) as resp", after the page is read
ParsePage(html, today) ==
    LET start == [result |-> <<>>,
                  log |-> <<LogRec("debug", "fetched", -1)>>]
        done  == ProcessDays(html, today, 0, start)
    IN  [result |-> done.result,
         log    |-> IF DOMAIN done.result = {}
                    THEN Append(done.log, LogRec("error", "no data", -1))
                    ELSE done.log]

----------------------------------------------------------------------------
(* KIndexSensor.                                                           *)

RECURSIVE SplitOn(_, _, _)
\* s.split(sep): the pieces of s between the separators
SplitOn(s, sep, piece) ==
    IF s = <<>> THEN <<piece>>
    ELSE IF Head(s) = sep THEN <<piece>> \o SplitOn(Tail(s), sep, <<>>)
    ELSE SplitOn(Tail(s), sep, Append(piece, Head(s)))

\* KIndexSensor.__init__(coordinator, sensor_type), run on the date `now`
NewSensor(sensor_type, now) ==
    LET day_number  == SplitOn(sensor_type, "_", <<>>)[2]
        target_date == AddDays(now, IntOf(day_number).value)
    IN  [sensor_type |-> sensor_type,
         name        |-> IF day_number = <<"0">> THEN "MeteoAgent K-index Today"
                         ELSE IF day_number = <<"1">>
                         THEN "MeteoAgent K-index Tomorrow"
                         ELSE "MeteoAgent K-index Day " \o Join(day_number),
         unique_id   |-> "meteoagent_kindex_" \o Join(sensor_type),
         date        |-> StrftimeIso(target_date)]

\* "for day_offset in range(20): sensors.append(KIndexSensor(...))"
NewSensors(now) == [i \in 1..N |-> NewSensor(DayKey(i - 1), now)]

\* KIndexSensor.native_value on coordinator.data = d; with d None the
\* call of .get raises AttributeError, which the except clause lets through
NativeValue(d, sensor) ==
    IF d.isNone
    THEN [exc |-> "AttributeError", value |-> 0]
    ELSE [exc |-> "none", value |-> DictGet(d.dict, sensor.sensor_type, 0)]

\* variant: "value > 5" in the first comparison
InterpretationAboveFive(value) ==
    IF value > 5 THEN "High"
    ELSE IF value >= 4 THEN "Medium"
    ELSE IF value >= 1 THEN "Low"
    ELSE "None"

\* KIndexSensor._get_kindex_interpretation(value), value an int
GetKindexInterpretation(value) ==
    IF value >= 5 THEN "High"
    ELSE IF value >= 4 THEN "Medium"
    ELSE IF value >= 1 THEN "Low"
    ELSE "None"

\* KIndexSensor.extra_state_attributes
ExtraStateAttributes(d, sensor) ==
    IF d.isNone
    THEN [exc |-> "AttributeError", severity |-> "", date |-> sensor.date]
    ELSE [exc |-> "none",
          severity |-> GetKindexInterpretation(
                           DictGet(d.dict, sensor.sensor_type, 0)),
          date |-> sensor.date]

\* KIndexSensor.icon
Icon(d, sensor) ==
    IF d.isNone
    THEN [exc |-> "AttributeError", icon |-> ""]
    ELSE LET value == DictGet(d.dict, sensor.sensor_type, 0)
         IN  [exc |-> "none",
              icon |-> IF value >= 5 THEN "mdi:head-alert-outline"
                       ELSE IF value >= 4 THEN "mdi:head-snowflake-outline"
                       ELSE "mdi:head-heart-outline"]

----------------------------------------------------------------------------
(* Inputs: what the endpoint may answer and when the integration starts.   *)

\* resp.status of an answer; the code never reads it
Statuses == {200, 503}

Classes == {"date_20240229", "date_20240315", "date_20240101"}

Texts == {<<" ", "1", "2", "\n">>, <<"-", "1">>, <<"n", "/", "a">>, <<>>}

Elems == {Element(c, t) : c \in Classes, t \in Texts}

\* one element for the start date, holding a single digit
ValuePages ==
    {<<Element("date_20240315", <<DigitChar[k]>>)>> : k \in 1..10}

\* every page of at most MaxElems elements, and the single-digit pages
Markups == UNION {[1..k -> Elems] : k \in 0..MaxElems} \cup ValuePages

\* the pages the endpoint serves in the behaviours of Spec
Pages ==
    {<<>>,
     <<Element("date_20240101", <<"4">>)>>,
     <<Element("date_20240229", <<"4">>),
       Element("date_20240315", <<" ", "1", "2", "\n">>)>>,
     <<Element("date_20240229", <<"n", "/", "a">>),
       Element("date_20240315", <<"-", "1">>)>>,
     <<Element("date_20240315", <<"0">>),
       Element("date_20240229", <<>>),
       Element("date_20240315", <<"4">>)>>}

\* the pages the endpoint serves while the host reads the entities: the
\* two that hold an element for each of two days
PagesRead == {p \in Pages : Len(p) = 2}

StartDates == {Date(2024, 2, 28)}

StartDatesParse == {Date(2024, 3, 15), Date(2024, 2, 28), Date(2023, 12, 25)}

\* the dates date.today() can return in a behaviour
ClockDates ==
    {AddDays(d, k) : d \in StartDates, k \in 0..MaxTicks} \cup StartDatesParse

\* ParsePage on every page and reference date a behaviour can hand it,
\* evaluated once and looked up from then on
ParsedPages ==
    [x \in (Pages \X ClockDates) \cup (Markups \X StartDatesParse)
        |-> ParsePage(x[1], x[2])] @@ <<>>

\* NewSensors on every date a behaviour can create the entities on
SensorsOn == [d \in ClockDates |-> NewSensors(d)] @@ <<>>

----------------------------------------------------------------------------------------------------------------------------------------------
(* State.                                                                  *)

\* a suspended invocation: the date it read and who awaits it
Cycle(today, caller) == [today |-> today, caller |-> caller]

\* coordinator.data before the first successful refresh
NoneData == [isNone |-> TRUE, dict |-> <<>>]

NoPub == [today |-> NoDate, html |-> <<>>, status |-> 0]

\* no property of an entity has been read yet
NoRead ==
    [view |-> 0, call |-> "none", result |-> <<>>, held |-> NoPub,
     after |-> "none"]

InitCommon ==
    /\ registered = FALSE
    /\ data = NoneData
    /\ cycles = <<>>
    /\ setup = "none"
    /\ sensors = <<>>
    /\ log = <<>>
    /\ lastOutcome = "none"
    /\ pub = NoPub
    /\ ticks = 0
    /\ made = 0
    /\ out = NoRead

Init ==
    /\ clock \in StartDates
    /\ server = Pages
    /\ InitCommon

\* the integration started with the endpoint serving PagesRead
InitRead ==
    /\ clock \in StartDates
    /\ server = PagesRead
    /\ InitCommon

\* one drawn page, served throughout
InitParse ==
    /\ clock \in StartDatesParse
    /\ server \in {{m} : m \in Markups}
    /\ InitCommon

----------------------------------------------------------------------------
(* Operations.                                                             *)

CanBegin == Len(cycles) < MaxInFlight

\* _async_update_data up to its first await: today = date.today(),
\* result = {}, then the session and the GET
BeginUpdate(caller) == cycles' = Append(cycles, Cycle(clock, caller))

\* the suspended invocations without the i-th, which has ended
Without(i) == SubSeq(cycles, 1, i - 1) \o SubSeq(cycles, i + 1, Len(cycles))

\* variant: every setup makes a coordinator and stores it under the id
SetupEntryMakesAnother ==
    /\ setup = "none"
    /\ CanBegin
    /\ registered' = TRUE
    /\ data' = NoneData
    /\ BeginUpdate("setup")
    /\ setup' = "refreshing"
    /\ made' = made + 1
    /\ UNCHANGED <<clock, server, sensors, log, lastOutcome, pub, ticks, out>>

\* variant: the entities are built and added before the first refresh
SetupEntryAddsEntitiesFirst ==
    /\ setup = "none"
    /\ CanBegin
    /\ registered' = TRUE
    /\ data' = IF registered THEN data ELSE NoneData
    /\ BeginUpdate("setup")
    /\ setup' = "refreshing"
    /\ made' = IF registered THEN made ELSE made + 1
    /\ sensors' = SensorsOn[clock]
    /\ UNCHANGED <<clock, server, log, lastOutcome, pub, ticks, out>>

\* sensor.async_setup_entry up to "await ...first_refresh()"
SetupEntry ==
    /\ setup = "none"
    /\ CanBegin
    /\ registered' = TRUE
    /\ data' = IF registered THEN data ELSE NoneData
    /\ BeginUpdate("setup")
    /\ setup' = "refreshing"
    /\ made' = IF registered THEN made ELSE made + 1
    /\ UNCHANGED <<clock, server, sensors, log, lastOutcome, pub, ticks, out>>

\* the host's timer (update_interval = SCAN_INTERVAL) starts a cycle
TimerRefresh ==
    /\ registered
    /\ CanBegin
    /\ BeginUpdate("timer")
    /\ UNCHANGED <<clock, server, registered, data, setup, sensors, log,
                   lastOutcome, pub, ticks, made, out>>

\* the rest of async_setup_entry once the first refresh has returned
FinishSetup(i) ==
    IF cycles[i].caller = "setup"
    THEN /\ sensors' = SensorsOn[clock]
         /\ setup' = "done"
    ELSE UNCHANGED <<sensors, setup>>

\* the first refresh raised: async_setup_entry ends with that exception
AbortSetup(i) ==
    IF cycles[i].caller = "setup"
    THEN setup' = "none"
    ELSE UNCHANGED setup

\* variant: the days found are written into the dict already published
PublishInPlace(result) ==
    [isNone |-> FALSE,
     dict   |-> IF data.isNone THEN result
                ELSE [k \in DOMAIN result |->
                         IF result[k] # 0 THEN result[k]
                         ELSE DictGet(data.dict, k, 0)]]

\* what the coordinator holds once _async_update_data has returned result
Publish(result) == [isNone |-> FALSE, dict |-> result]

\* variant: date.today() is read again when the page is parsed
FetchReturnsRereadsDate(i, status, html) ==
    /\ i \in DOMAIN cycles
    /\ LET parsed == ParsedPages[<<html, clock>>]
       IN  /\ data' = Publish(parsed.result)
           /\ log' = parsed.log
    /\ pub' = [today |-> clock, html |-> html, status |-> status]
    /\ lastOutcome' = "published"
    /\ cycles' = Without(i)
    /\ FinishSetup(i)
    /\ UNCHANGED <<clock, server, registered, ticks, made, out>>

\* the GET of the i-th invocation is answered and the body read: the page
\* is parsed, the result returned and taken by the coordinator as its data
FetchReturns(i, status, html) ==
    /\ i \in DOMAIN cycles
    /\ LET parsed == ParsedPages[<<html, cycles[i].today>>]
       IN  /\ data' = Publish(parsed.result)
           /\ log' = parsed.log
    /\ pub' = [today |-> cycles[i].today, html |-> html, status |-> status]
    /\ lastOutcome' = "published"
    /\ cycles' = Without(i)
    /\ FinishSetup(i)
    /\ UNCHANGED <<clock, server, registered, ticks, made, out>>

Failures == {"timeout", "client_error", "cancelled"}

\* variant: a failed update clears the data
DropData(d) == NoneData

\* what the coordinator holds once _async_update_data has raised
KeepData(d) == d

\* variant: the invocation that raised is never cleared away
UpdateFailsStaysBusy(i, cause) ==
    /\ i \in DOMAIN cycles
    /\ data' = KeepData(data)
    /\ lastOutcome' = cause
    /\ cycles' = cycles
    /\ AbortSetup(i)
    /\ UNCHANGED <<clock, server, registered, sensors, log, pub, ticks,
                   made, out>>

\* an await of the i-th invocation raises: asyncio.TimeoutError from
\* timeout(10), aiohttp.ClientError from the GET or the read,
\* CancelledError on teardown
UpdateFails(i, cause) ==
    /\ i \in DOMAIN cycles
    /\ data' = KeepData(data)
    /\ lastOutcome' = cause
    /\ cycles' = Without(i)
    /\ AbortSetup(i)
    /\ UNCHANGED <<clock, server, registered, sensors, log, pub, ticks,
                   made, out>>

\* async_unload_entry: the platform's entities go, hass.data stays
UnloadEntry ==
    /\ setup = "done"
    /\ sensors' = <<>>
    /\ setup' = "none"
    /\ UNCHANGED <<clock, server, registered, data, cycles, log, lastOutcome,
                   pub, ticks, made, out>>

\* midnight passes
Tick ==
    /\ ticks < MaxTicks
    /\ ticks' = ticks + 1
    /\ clock' = AddDays(clock, 1)
    /\ UNCHANGED <<server, registered, data, cycles, setup, sensors, log,
                   lastOutcome, pub, made, out>>

\* what a read of property `call` of the i-th entity hands to the host
Answer(i, call, result) ==
    [view |-> i, call |-> call, result |-> result, held |-> pub,
     after |-> lastOutcome]

\* variant: the property takes its entry out of the dict, data.pop(key, 0)
DictAfterPop(d, key) == [k \in DOMAIN d \ {key} |-> d[k]]

\* the dict after d.get(key, 0), which leaves it as it is
DictAfterGet(d, key) == d

\* coordinator.data once a property of `sensor` has looked its entry up
AfterLookup(sensor) ==
    IF data.isNone THEN data
    ELSE [data EXCEPT !.dict = DictAfterGet(@, sensor.sensor_type)]

\* the host reads KIndexSensor.native_value of the i-th entity
ReadNativeValue(i) ==
    /\ i \in DOMAIN sensors
    /\ out' = Answer(i, "native_value", NativeValue(data, sensors[i]))
    /\ data' = AfterLookup(sensors[i])
    /\ UNCHANGED <<clock, server, registered, cycles, setup, sensors, log,
                   lastOutcome, pub, ticks, made>>

\* the host reads KIndexSensor.icon of the i-th entity
ReadIcon(i) ==
    /\ i \in DOMAIN sensors
    /\ out' = Answer(i, "icon", Icon(data, sensors[i]))
    /\ data' = AfterLookup(sensors[i])
    /\ UNCHANGED <<clock, server, registered, cycles, setup, sensors, log,
                   lastOutcome, pub, ticks, made>>

\* the host reads KIndexSensor.extra_state_attributes of the i-th entity
ReadAttributes(i) ==
    /\ i \in DOMAIN sensors
    /\ out' = Answer(i, "extra_state_attributes",
                     ExtraStateAttributes(data, sensors[i]))
    /\ data' = AfterLookup(sensors[i])
    /\ UNCHANGED <<clock, server, registered, cycles, setup, sensors, log,
                   lastOutcome, pub, ticks, made>>

Next ==
    \/ SetupEntry
    \/ TimerRefresh
    \/ \E i \in DOMAIN cycles, status \in Statuses, html \in server :
           FetchReturns(i, status, html)
    \/ \E i \in DOMAIN cycles, cause \in Failures : UpdateFails(i, cause)
    \/ UnloadEntry
    \/ Tick

Spec == Init /\ [][Next]_vars

AllIdle == cycles = <<>>

\* one cycle at a time, no midnight, answers with status 200, timeouts as
\* the only failure: the parse on every drawn page
NextParse ==
    \/ AllIdle /\ SetupEntry
    \/ AllIdle /\ TimerRefresh
    \/ \E i \in DOMAIN cycles, status \in {200}, html \in server :
           FetchReturns(i, status, html)
    \/ \E i \in DOMAIN cycles, cause \in {"timeout"} : UpdateFails(i, cause)
    \/ UnloadEntry

SpecParse == InitParse /\ [][NextParse]_vars

\* one cycle at a time, no midnight, with the host reading the entities'
\* properties between the steps of the cycles
NextRead ==
    \/ AllIdle /\ SetupEntry
    \/ AllIdle /\ TimerRefresh
    \/ \E i \in DOMAIN cycles, status \in {200}, html \in server :
           FetchReturns(i, status, html)
    \/ \E i \in DOMAIN cycles, cause \in {"timeout"} : UpdateFails(i, cause)
    \/ UnloadEntry
    \/ \E i \in DOMAIN sensors : ReadNativeValue(i)
    \/ \E i \in DOMAIN sensors : ReadIcon(i)
    \/ \E i \in DOMAIN sensors : ReadAttributes(i)

SpecRead == InitRead /\ [][NextRead]_vars

----------------------------------------------------------------------------
(* What the properties below are stated in: the calendar counted day by    *)
(* day, and what a page says read off its elements.                        *)

MonthLength(y, m) ==
    IF m = 2
    THEN (IF (y % 4 = 0 /\ y % 100 # 0) \/ y % 400 = 0 THEN 29 ELSE 28)
    ELSE IF m \in {4, 6, 9, 11} THEN 30 ELSE 31

DayAfter(d) ==
    IF d.day < MonthLength(d.year, d.month) THEN Date(d.year, d.month, d.day + 1)
    ELSE IF d.month < 12 THEN Date(d.year, d.month + 1, 1)
    ELSE Date(d.year + 1, 1, 1)

RECURSIVE DaysLater(_, _)
\* the o-th calendar day after d
DaysLater(d, o) == IF o = 0 THEN d ELSE DayAfter(DaysLater(d, o - 1))

\* the N consecutive calendar days starting at each possible reference date
Horizon ==
    [d \in ClockDates |-> [o \in 0..(N - 1) |-> DaysLater(d, o)] @@ <<>>] @@ <<>>

\* the calendar date an element's class names
ClassDate ==
    ("date_20240229" :> Date(2024, 2, 29)) @@
    ("date_20240315" :> Date(2024, 3, 15)) @@
    ("date_20240101" :> Date(2024, 1, 1))

\* the integer an element's text spells, for the texts that spell one
Reading ==
    (<<"0">> :> 0) @@ (<<"1">> :> 1) @@ (<<"2">> :> 2) @@ (<<"3">> :> 3) @@
    (<<"4">> :> 4) @@ (<<"5">> :> 5) @@ (<<"6">> :> 6) @@ (<<"7">> :> 7) @@
    (<<"8">> :> 8) @@ (<<"9">> :> 9) @@
    (<<" ", "1", "2", "\n">> :> 12) @@ (<<"-", "1">> :> -1)

SpellsInt(text) == text \in DOMAIN Reading

\* the key under which the snapshot holds day offset o
OffsetKey(o) ==
    IF o < 10 THEN <<"d", "a", "y", "_", DigitChar[o + 1]>>
    ELSE <<"d", "a", "y", "_", "1", DigitChar[o - 9]>>

Offsets == 0..(N - 1)

\* the elements of page h for day offset o of a cycle started on `today`
ElementsFor(h, today, o) ==
    {i \in DOMAIN h : ClassDate[h[i].cls] = Horizon[today][o]}

HasSnapshot == ~data.isNone

----------------------------------------------------------------------------
(* C1: after a successful cycle the snapshot holds exactly one entry for   *)
(* each day offset 0..19 and no other entry; an offset whose element is    *)
(* missing or not a number holds 0.                                        *)

C1_OneEntryPerOffset ==
    HasSnapshot =>
        /\ DOMAIN data.dict = {OffsetKey(o) : o \in Offsets}
        /\ \A o \in Offsets :
               (\A i \in ElementsFor(pub.html, pub.today, o) :
                    ~SpellsInt(pub.html[i].text))
                   => data.dict[OffsetKey(o)] = 0

\* a published snapshot in which one offset has no element, another has an
\* element that is no number, and a third has a value
C1_Witness ==
    /\ lastOutcome = "published"
    /\ \E o \in Offsets : ElementsFor(pub.html, pub.today, o) = {}
    /\ \E o \in Offsets : \E i \in ElementsFor(pub.html, pub.today, o) :
           ~SpellsInt(pub.html[i].text)
    /\ \E o \in Offsets : data.dict[OffsetKey(o)] # 0

----------------------------------------------------------------------------
(* C6: round trip.  If the fetched page holds the integer v in the element *)
(* for (reference date of the cycle + o days), the sensor at offset o      *)
(* returns v as its value; v = 4 reads as severity Medium.                 *)

\* the elements for offset o all spell the integer v
HoldsValue(h, today, o, v) ==
    /\ ElementsFor(h, today, o) # {}
    /\ \A i \in ElementsFor(h, today, o) :
           SpellsInt(h[i].text) /\ Reading[h[i].text] = v

\* the integers the elements of page h for offset o spell
PageValues(h, today, o) ==
    {Reading[h[i].text] :
        i \in {j \in ElementsFor(h, today, o) : SpellsInt(h[j].text)}}

Values == {Reading[t] : t \in DOMAIN Reading}

C6_RoundTrip ==
    (HasSnapshot /\ sensors # <<>>) =>
        \A o \in Offsets : \A v \in PageValues(pub.html, pub.today, o) :
            HoldsValue(pub.html, pub.today, o, v) =>
                /\ NativeValue(data, sensors[o + 1]) = [exc |-> "none", value |-> v]
                /\ v = 4 => ExtraStateAttributes(data, sensors[o + 1]).severity
                                = "Medium"

\* the example: reference date 2024-03-15, 4 under date_20240315, offset 0
C6_Witness ==
    /\ sensors # <<>>
    /\ lastOutcome = "published"
    /\ pub.today = Date(2024, 3, 15)
    /\ \E i \in DOMAIN pub.html :
           pub.html[i] = Element("date_20240315", <<"4">>)
    /\ HoldsValue(pub.html, pub.today, 0, 4)
    /\ NativeValue(data, sensors[1]).value = 4
    /\ ExtraStateAttributes(data, sensors[1]).severity = "Medium"

----------------------------------------------------------------------------
(* C7: partial degradation.  The value recorded for offset o depends only  *)
(* on the elements for offset o's date: 0 when there is none or when none  *)
(* spells an integer, the integer when they spell one; a missing or        *)
(* unparseable day leaves the values of the other days as parsed.          *)

C7_PartialDegradation ==
    HasSnapshot =>
        \A o \in Offsets :
            LET els == ElementsFor(pub.html, pub.today, o)
                key == OffsetKey(o)
            IN  /\ key \in DOMAIN data.dict
                /\ els = {} => data.dict[key] = 0
                /\ (\A i \in els : ~SpellsInt(pub.html[i].text))
                       => data.dict[key] = 0
                /\ \A v \in PageValues(pub.html, pub.today, o) :
                       HoldsValue(pub.html, pub.today, o, v)
                           => data.dict[key] = v

\* a cycle that succeeded with an unparseable day in front of a later day
\* that holds a value other than 0
C7_Witness ==
    /\ lastOutcome = "published"
    /\ \E o1, o2 \in Offsets :
           /\ o1 < o2
           /\ ElementsFor(pub.html, pub.today, o1) # {}
           /\ \A i \in ElementsFor(pub.html, pub.today, o1) :
                  ~SpellsInt(pub.html[i].text)
           /\ data.dict[OffsetKey(o1)] = 0
           /\ \E v \in Values \ {0} :
                  /\ HoldsValue(pub.html, pub.today, o2, v)
                  /\ data.dict[OffsetKey(o2)] = v
           /\ \E o3 \in Offsets : ElementsFor(pub.html, pub.today, o3) = {}

----------------------------------------------------------------------------
(* C2: an update cycle that fails by a timeout or a connection failure     *)
(* leaves coordinator.data, and so what every sensor returns, as it was;   *)
(* the coordinator stays registered and can run the next cycle.            *)

\* this step ends the i-th suspended invocation
CycleEnds(i) == i \in DOMAIN cycles /\ cycles' = Without(i)

C2_FailureKeepsSnapshot ==
    [][\A i \in DOMAIN cycles :
          (CycleEnds(i) /\ lastOutcome' \in {"timeout", "client_error"}) =>
              /\ data' = data
              /\ sensors' = sensors
              /\ \A k \in DOMAIN sensors :
                     NativeValue(data', sensors'[k]) = NativeValue(data, sensors[k])
              /\ registered'
              /\ CanBegin']_vars

\* a timeout has just ended a cycle while sensors show an earlier snapshot
C2_Witness ==
    /\ lastOutcome = "timeout"
    /\ HasSnapshot
    /\ sensors # <<>>
    /\ \E i \in DOMAIN sensors : NativeValue(data, sensors[i]).value # 0

----------------------------------------------------------------------------
(* C3: a GET answered with a non-success status ends the cycle as a fetch  *)
(* failure: the body is not parsed and no snapshot is published, so the    *)
(* visible snapshot always stems from an answer with a success status.     *)

SuccessStatus(status) == status \in 200..299

C3_NonSuccessNotPublished == HasSnapshot => SuccessStatus(pub.status)

----------------------------------------------------------------------------
(* C5: in every state (a cycle suspended, after a timeout, after a         *)
(* cancelled cycle) coordinator.data is None or the whole result of one    *)
(* cycle, and every sensor reads its value from that same result.          *)

C5_WholeSnapshots ==
    \/ data.isNone
    \/ \E h \in server, d \in ClockDates :
           LET whole == ParsedPages[<<h, d>>].result
           IN  /\ data.dict = whole
               /\ \A i \in DOMAIN sensors :
                      NativeValue(data, sensors[i])
                          = [exc |-> "none", value |-> whole[OffsetKey(i - 1)]]

\* a cancelled cycle behind, another cycle suspended, sensors showing a
\* snapshot with more than one value found
C5_Witness ==
    /\ lastOutcome = "cancelled"
    /\ cycles # <<>>
    /\ HasSnapshot
    /\ sensors # <<>>
    /\ \E i, j \in DOMAIN sensors :
           /\ i # j
           /\ NativeValue(data, sensors[i]).value # 0
           /\ NativeValue(data, sensors[j]).value # 0

----------------------------------------------------------------------------
(* C8: severity thresholds on the values a snapshot entry can hold.        *)

SeverityOf(i) == ExtraStateAttributes(data, sensors[i]).severity

ValueOf(i) == NativeValue(data, sensors[i]).value

\* as claimed: High from 5, Medium at 4, Low from 1 to 3, None exactly at 0
C8_NoneExactlyAtZero ==
    (HasSnapshot /\ sensors # <<>>) =>
        \A i \in DOMAIN sensors :
            /\ ValueOf(i) >= 5 => SeverityOf(i) = "High"
            /\ ValueOf(i) = 4 => SeverityOf(i) = "Medium"
            /\ ValueOf(i) \in 1..3 => SeverityOf(i) = "Low"
            /\ SeverityOf(i) = "None" <=> ValueOf(i) = 0

\* C8 as amended: High from 5, Medium at 4, Low from 1 to 3, None exactly
\* for the values 0 and below
C8_SeverityThresholds ==
    (HasSnapshot /\ sensors # <<>>) =>
        \A i \in DOMAIN sensors :
            /\ ValueOf(i) >= 5 => SeverityOf(i) = "High"
            /\ ValueOf(i) = 4 => SeverityOf(i) = "Medium"
            /\ ValueOf(i) \in 1..3 => SeverityOf(i) = "Low"
            /\ SeverityOf(i) = "None" <=> ValueOf(i) <= 0

\* a sensor whose snapshot entry is negative reads severity None
C8_Witness ==
    /\ HasSnapshot
    /\ sensors # <<>>
    /\ \E i \in DOMAIN sensors : ValueOf(i) < 0 /\ SeverityOf(i) = "None"

----------------------------------------------------------------------------
(* C9: when the fetch succeeds and no day offset resolves to a value, the  *)
(* cycle logs at error severity and publishes the all-zero snapshot.       *)

NothingResolved ==
    \A o \in Offsets : \A i \in ElementsFor(pub.html, pub.today, o) :
        ~SpellsInt(pub.html[i].text)

C9_AllFailLogsError ==
    (lastOutcome = "published" /\ NothingResolved) =>
        /\ \A o \in Offsets : data.dict[OffsetKey(o)] = 0
        /\ \E k \in DOMAIN log : log[k].level = "error"

----------------------------------------------------------------------------
(* C10: the reference date is read once, when the cycle starts, and every  *)
(* offset o is looked up under that date + o days, also when midnight      *)
(* passes while the cycle waits for the answer.                            *)

C10_DatesFromCycleStart ==
    [][/\ Len(cycles') > Len(cycles)
          => cycles' = Append(cycles, Cycle(clock, cycles'[Len(cycles')].caller))
       /\ Len(cycles') = Len(cycles) => cycles' = cycles
       /\ Len(cycles') < Len(cycles) => \E i \in DOMAIN cycles : CycleEnds(i)
       /\ \A i \in DOMAIN cycles :
              (CycleEnds(i) /\ lastOutcome' = "published") =>
                  \A o \in Offsets :
                      /\ ElementsFor(pub'.html, cycles[i].today, o) = {}
                             => data'.dict[OffsetKey(o)] = 0
                      /\ \A v \in PageValues(pub'.html, cycles[i].today, o) :
                             HoldsValue(pub'.html, cycles[i].today, o, v)
                                 => data'.dict[OffsetKey(o)] = v]_vars

\* a cycle that began the day before has published a value it found
C10_Witness ==
    /\ lastOutcome = "published"
    /\ pub.today # clock
    /\ \E o \in Offsets, v \in Values \ {0} :
           /\ HoldsValue(pub.html, pub.today, o, v)
           /\ ~HoldsValue(pub.html, clock, o, v)
           /\ data.dict[OffsetKey(o)] = v

----------------------------------------------------------------------------
(* C11: the 'date' attribute of the sensor at offset o is computed once,   *)
(* when the sensor is constructed, as (reference date of the cycle that    *)
(* preceded its creation + o days), and extra_state_attributes returns it  *)
(* unchanged after any later update cycles and midnights.                  *)

TwoDigits(n) == DigitChar[(n \div 10) + 1] \o DigitChar[(n % 10) + 1]

\* the label YYYY-MM-DD of a calendar date
IsoLabel(d) ==
    TwoDigits(d.year \div 100) \o TwoDigits(d.year % 100) \o "-"
        \o TwoDigits(d.month) \o "-" \o TwoDigits(d.day)

\* this step adds the entities: the first refresh has just returned
EntitiesAdded == sensors = <<>> /\ sensors' # <<>>

\* the labels the entities show stay as they are
LabelsKept ==
    (sensors # <<>> /\ sensors' # <<>>) =>
        \A k \in DOMAIN sensors :
            ExtraStateAttributes(data', sensors'[k]).date
                = ExtraStateAttributes(data, sensors[k]).date

C11_DateFromCycleReference ==
    [][/\ EntitiesAdded =>
              \A o \in Offsets :
                  ExtraStateAttributes(data', sensors'[o + 1]).date
                      = IsoLabel(Horizon[pub'.today][o])
       /\ LabelsKept]_vars

----------------------------------------------------------------------------
(* C12: no failure reaches a consumer as an exception.  A day that fails   *)
(* to parse shows as the value 0 with severity 'None'; a fetch failure     *)
(* (network, timeout or status) shows as the previous snapshot, unchanged; *)
(* severity 'Unknown' is never reported for an entry that holds an         *)
(* integer.                                                                *)

\* no property of any sensor raises, and none reports 'Unknown'
ReadsRaiseNothing ==
    \A k \in DOMAIN sensors :
        /\ NativeValue(data, sensors[k]).exc = "none"
        /\ Icon(data, sensors[k]).exc = "none"
        /\ ExtraStateAttributes(data, sensors[k]).exc = "none"
        /\ ExtraStateAttributes(data, sensors[k]).severity # "Unknown"

\* the days of the published page that did not parse show as 0 and 'None'
ParseFailuresShowZero ==
    \A k \in DOMAIN sensors :
        (\A i \in ElementsFor(pub.html, pub.today, k - 1) :
             ~SpellsInt(pub.html[i].text))
            => /\ NativeValue(data, sensors[k]).value = 0
               /\ ExtraStateAttributes(data, sensors[k]).severity = "None"

\* the cycle this step ends is a fetch failure
FetchFailed ==
    \/ lastOutcome' \in {"timeout", "client_error"}
    \/ lastOutcome' = "published" /\ ~SuccessStatus(pub'.status)

\* the sensors show after the step what they showed before it
SameReadings ==
    /\ data' = data
    /\ \A k \in DOMAIN sensors :
           /\ k \in DOMAIN sensors'
           /\ NativeValue(data', sensors'[k]) = NativeValue(data, sensors[k])
           /\ ExtraStateAttributes(data', sensors'[k]).severity
                  = ExtraStateAttributes(data, sensors[k]).severity

C12_NoFailureAsException ==
    [][/\ ReadsRaiseNothing'
       /\ (HasSnapshot /\ lastOutcome = "published") => ParseFailuresShowZero
       /\ \A i \in DOMAIN cycles :
              (CycleEnds(i) /\ FetchFailed) => SameReadings]_vars

----------------------------------------------------------------------------
(* C13: reading a sensor is a pure projection.  A read of native_value,    *)
(* icon or extra_state_attributes (severity, date) of any sensor starts no *)
(* fetch and leaves coordinator.data as it is; as long as no cycle         *)
(* completes every sensor keeps returning the same value, so two reads of  *)
(* native_value of one sensor with no cycle completing in between agree.   *)

\* this step hands the host an answer other than the last one
ReadStep == out' # out

\* this step ends a cycle
CycleCompletes == \E i \in DOMAIN cycles : CycleEnds(i)

C13_ReadsArePure ==
    [][/\ ReadStep =>
              /\ cycles' = cycles
              /\ data' = data
              /\ UNCHANGED <<registered, setup, sensors, log, lastOutcome, pub>>
       /\ (~CycleCompletes /\ <<data, sensors>>' # <<data, sensors>>) =>
              \A k \in DOMAIN sensors :
                  k \in DOMAIN sensors' =>
                      NativeValue(data', sensors'[k]) = NativeValue(data, sensors[k])
       /\ (/\ ReadStep
           /\ out.call = "native_value" /\ out'.call = "native_value"
           /\ out'.view = out.view
           /\ out'.held = out.held)
              => out'.result = out.result]_vars

\* the host has read a value other than 0 and then the icon of a sensor,
\* with no cycle under way
C13_Witness ==
    /\ out.call = "icon"
    /\ out.view \in DOMAIN sensors
    /\ NativeValue(data, sensors[out.view]).value # 0
    /\ AllIdle

----------------------------------------------------------------------------
(* C14: every update cycle goes Idle -> Fetching -> Parsing -> Published   *)
(* or Idle -> Fetching -> Failed and then is Idle again.  A failed cycle   *)
(* does not stop the scheduling: after it the next cycle can start, runs a *)
(* new fetch and, when that fetch is answered, publishes the snapshot      *)
(* parsed from the answer.                                                 *)

\* Idle -> Fetching: one more invocation waits for its answer, with the
\* reference date of now; nothing is published and no outcome recorded
CycleStarts ==
    /\ Len(cycles') = Len(cycles) + 1
    /\ SubSeq(cycles', 1, Len(cycles)) = cycles
    /\ cycles'[Len(cycles')].today = clock
    /\ lastOutcome' = lastOutcome
    /\ pub' = pub
    /\ data'.isNone = data.isNone
    /\ data'.dict = data.dict

\* Fetching -> Parsing -> Published -> Idle: the i-th invocation is gone
\* and the snapshot is the parse of a page of the server for its date
CyclePublishes(i) ==
    /\ CycleEnds(i)
    /\ lastOutcome' = "published"
    /\ pub'.html \in server
    /\ pub'.today = cycles[i].today
    /\ HasSnapshot'
    /\ \A o \in Offsets :
           /\ ElementsFor(pub'.html, cycles[i].today, o) = {}
                  => data'.dict[OffsetKey(o)] = 0
           /\ \A v \in PageValues(pub'.html, cycles[i].today, o) :
                  HoldsValue(pub'.html, cycles[i].today, o, v)
                      => data'.dict[OffsetKey(o)] = v

\* Fetching -> Failed -> Idle: the i-th invocation is gone, nothing is
\* published, and the next cycle can start
CycleFailsAndClears(i) ==
    /\ CycleEnds(i)
    /\ lastOutcome' \in Failures
    /\ data' = data
    /\ pub' = pub
    /\ registered'
    /\ CanBegin'

C14_CyclePathAndRetry ==
    [][/\ cycles' # cycles =>
              \/ CycleStarts
              \/ \E i \in DOMAIN cycles : CyclePublishes(i)
              \/ \E i \in DOMAIN cycles : CycleFailsAndClears(i)
       /\ <<lastOutcome, pub, data.dict>>' # <<lastOutcome, pub, data.dict>>
              => cycles' # cycles
       /\ (lastOutcome \in Failures /\ AllIdle)
              => ENABLED (AllIdle /\ TimerRefresh)]_vars

\* the host read a sensor while the last cycle had failed; a later cycle
\* has since fetched again and published another snapshot
C14_Witness ==
    /\ out.after = "timeout"
    /\ lastOutcome = "published"
    /\ AllIdle
    /\ HasSnapshot
    /\ pub # out.held
    /\ \E k \in DOMAIN sensors :
           /\ out.view = k
           /\ out.call = "native_value"
           /\ NativeValue(data, sensors[k]).value # out.result.value

----------------------------------------------------------------------------
(* C15: the sensors are created only after the coordinator's first refresh *)
(* has completed successfully, so whenever a sensor exists                 *)
(* coordinator.data is a complete published snapshot, never None, and the  *)
(* sensor's lookup of its own key finds an entry.                          *)

\* every sensor finds its own entry in a snapshot of N entries
ViewsFindEntries ==
    sensors # <<>> =>
        /\ HasSnapshot
        /\ Cardinality(DOMAIN data.dict) = N
        /\ \A k \in DOMAIN sensors :
               /\ sensors[k].sensor_type = OffsetKey(k - 1)
               /\ sensors[k].sensor_type \in DOMAIN data.dict
               /\ NativeValue(data, sensors[k]).exc = "none"

C15_ViewsAfterFirstRefresh ==
    [][/\ EntitiesAdded =>
              \E i \in DOMAIN cycles :
                  /\ CycleEnds(i)
                  /\ cycles[i].caller = "setup"
                  /\ lastOutcome' = "published"
                  /\ HasSnapshot'
       /\ ViewsFindEntries'
       /\ sensors' # sensors => (EntitiesAdded \/ sensors' = <<>>)]_vars

\* sensors exist and find their entries while the last cycle to end has
\* failed and another cycle is waiting for its answer
C15_Witness ==
    /\ sensors # <<>>
    /\ ViewsFindEntries
    /\ lastOutcome = "client_error"
    /\ cycles # <<>>
    /\ \E k \in DOMAIN sensors : NativeValue(data, sensors[k]).value = 12

----------------------------------------------------------------------------
(* C16: over any sequence of setups and unloads of the entry, at most one  *)
(* coordinator is ever made for its id.  A setup that finds a coordinator  *)
(* under the id (after an unload, which leaves hass.data untouched, or     *)
(* after a first refresh that failed) takes that one, with the data it     *)
(* holds, and makes no second one.                                         *)

\* this step is a setup of the entry: a first refresh begins
SetupBegins == setup = "none" /\ setup' = "refreshing"

C16_OneCoordinatorPerEntry ==
    [][/\ made' <= 1
       /\ registered' <=> made' = 1
       /\ registered => registered'
       /\ (SetupBegins /\ registered) =>
              /\ made' = made
              /\ data' = data
       /\ (setup = "done" /\ setup' = "none") =>
              /\ registered' = registered
              /\ made' = made
              /\ data' = data]_vars

\* a second setup of the entry is under way, after an unload or a failed
\* first refresh, on the one coordinator, which still holds its snapshot
C16_Witness ==
    /\ made = 1
    /\ registered
    /\ setup = "refreshing"
    /\ sensors = <<>>
    /\ HasSnapshot
    /\ \E o \in Offsets : data.dict[OffsetKey(o)] # 0

====
